---- MODULE Spec2Model ----
(***************************************************************************)
(* A model of BasicInterpreter (src/basic_interpreter.py): the program     *)
(* store, the statement dispatcher with its run loop, the FOR/NEXT stack   *)
(* and the text-scanning expression evaluator.                             *)
(*                                                                         *)
(* Text is modelled character by character: a Python str is a sequence of  *)
(* one-character strings, so that slicing, strip(), split() and            *)
(* startswith() are computed as the code computes them.                    *)
(***************************************************************************)
EXTENDS Integers, Sequences, FiniteSets, TLC

(***************************************************************************)
(* Bounds of the model.                                                    *)
(***************************************************************************)
\* longest program text, in physical lines
MaxLines == 3
\* most statements one execute() is followed for (loops may not terminate)
MaxSteps == 7
\* most calls of execute() followed after one load_program()
MaxExecutes == 2
\* most programs loaded into one instance
MaxLoads == 2
\* largest number written as an operand of an arithmetic expression
MaxOperand == 4
\* longest argument text of a PRINT statement, in characters
MaxPrintLen == 5

(***************************************************************************)
(* Python str primitives.  Where a definition needs an intermediate result *)
(* more than once it hands it to a local operator as an argument, so that  *)
(* the result is computed once.                                            *)
(***************************************************************************)
IsSpace(c) == c \in {" ", "\t", "\n"}

IsDigit(c) == c \in {"0", "1", "2", "3", "4", "5", "6", "7", "8", "9"}

DigitVal(c) ==
    CASE c = "0" -> 0 [] c = "1" -> 1 [] c = "2" -> 2 [] c = "3" -> 3
      [] c = "4" -> 4 [] c = "5" -> 5 [] c = "6" -> 6 [] c = "7" -> 7
      [] c = "8" -> 8 [] c = "9" -> 9

DigitChar(d) == <<"0", "1", "2", "3", "4", "5", "6", "7", "8", "9">>[d + 1]

Min(S) == CHOOSE x \in S : \A y \in S : x <= y

Max(S) == CHOOSE x \in S : \A y \in S : y <= x

\* s[k:] for 0 <= k
From(s, k) == SubSeq(s, k + 1, Len(s))

\* s[:k] for 0 <= k
Upto(s, k) == SubSeq(s, 1, k)

\* s[1:-1]
Inside(s) == SubSeq(s, 2, Len(s) - 1)

RECURSIVE LStrip(_)
LStrip(s) == IF s # <<>> /\ IsSpace(Head(s)) THEN LStrip(Tail(s)) ELSE s

RECURSIVE RStrip(_)
RStrip(s) ==
    IF s # <<>> /\ IsSpace(s[Len(s)]) THEN RStrip(Upto(s, Len(s) - 1)) ELSE s

\* s.strip()
Strip(s) == LStrip(RStrip(s))

\* s.startswith(p)
StartsWith(s, p) == Len(s) >= Len(p) /\ Upto(s, Len(p)) = p

\* s.endswith(p)
EndsWith(s, p) == Len(s) >= Len(p) /\ From(s, Len(s) - Len(p)) = p

\* s.startswith('"') and s.endswith('"')
Quoted(s) == s # <<>> /\ s[1] = "\"" /\ s[Len(s)] = "\""

\* s.find(p) + 1: the 1-based position of the first occurrence of p, else 0
FindSub(s, p) ==
    LET First(hits) == IF hits = {} THEN 0 ELSE Min(hits)
    IN  First({i \in 1..(Len(s) - Len(p) + 1) : SubSeq(s, i, i + Len(p) - 1) = p})

\* p in s
Contains(s, p) == \E i \in 1..(Len(s) - Len(p) + 1) : SubSeq(s, i, i + Len(p) - 1) = p

\* s.split(p, 1)
Split1(s, p) ==
    LET At(i) == IF i = 0 THEN <<s>> ELSE <<Upto(s, i - 1), From(s, i + Len(p) - 1)>>
    IN  At(FindSub(s, p))

\* s.split(): the maximal runs of non-space characters
RECURSIVE SplitWs(_)
SplitWs(s) ==
    LET Cut(t, e) == <<Upto(t, e - 1)>> \o SplitWs(From(t, e - 1))
        Word(t, ends) == Cut(t, IF ends = {} THEN Len(t) + 1 ELSE Min(ends))
        Words(t) == IF t = <<>> THEN <<>> ELSE Word(t, {i \in 1..Len(t) : IsSpace(t[i])})
    IN  Words(LStrip(s))

RECURSIVE DigitsVal(_)
DigitsVal(s) ==
    IF s = <<>> THEN 0 ELSE 10 * DigitsVal(Upto(s, Len(s) - 1)) + DigitVal(s[Len(s)])

AllDigits(s) == s # <<>> /\ \A i \in 1..Len(s) : IsDigit(s[i])

\* int(s): surrounding whitespace and one sign are accepted; ok is FALSE where
\* Python raises ValueError.  (Underscore digit separators are left out.)
ParseInt(s) ==
    LET Signed(negative, body) ==
            IF AllDigits(body)
            THEN [ok |-> TRUE, n |-> IF negative THEN 0 - DigitsVal(body) ELSE DigitsVal(body)]
            ELSE [ok |-> FALSE, n |-> 0]
        Parse(t) ==
            IF t # <<>> /\ t[1] \in {"+", "-"} THEN Signed(t[1] = "-", Tail(t))
            ELSE Signed(FALSE, t)
    IN  Parse(Strip(s))

RECURSIVE NatToStr(_)
NatToStr(n) ==
    IF n < 10 THEN <<DigitChar(n)>> ELSE NatToStr(n \div 10) \o <<DigitChar(n % 10)>>

\* str(n) for an int n
IntToStr(n) == IF n < 0 THEN <<"-">> \o NatToStr(0 - n) ELSE NatToStr(n)

(***************************************************************************)
(* Values: Python int, float and str.  A float is kept as the reduced      *)
(* fraction n/d (d > 0); an int has d = 1; s is the text of a str.         *)
(***************************************************************************)
IntV(n) == [t |-> "int", n |-> n, d |-> 1, s |-> <<>>]

StrV(s) == [t |-> "str", n |-> 0, d |-> 1, s |-> s]

Abs(n) == IF n < 0 THEN 0 - n ELSE n

RECURSIVE Gcd(_, _)
Gcd(a, b) == IF b = 0 THEN a ELSE Gcd(b, a % b)

FloatV(n, d) ==
    LET Reduced(g, sgn) ==
            [t |-> "float", n |-> sgn * (n \div g), d |-> sgn * (d \div g), s |-> <<>>]
    IN  Reduced(Gcd(Abs(n), Abs(d)), IF d < 0 THEN 0 - 1 ELSE 1)

IsNum(v) == v.t \in {"int", "float"}

\* An exception: msg is the fixed part of its text, arg the text it quotes and
\* cause a second text it quotes (the text of the exception it wraps).
NoError == [msg |-> "", arg |-> <<>>, cause |-> <<>>]

Error(msg, arg) == [msg |-> msg, arg |-> arg, cause |-> <<>>]

\* str(e) of an exception.  The text of a TypeError depends on the operand
\* types and is not modelled: its class name stands for it.
ErrorText(e) ==
    CASE e.msg = "Cannot evaluate expression: " ->
           <<"C", "a", "n", "n", "o", "t", " ", "e", "v", "a", "l", "u", "a", "t", "e",
           " ", "e", "x", "p", "r", "e", "s", "s", "i", "o", "n", ":", " ">> \o e.arg
      [] e.msg = "Undefined line number in GOTO statement" ->
           <<"U", "n", "d", "e", "f", "i", "n", "e", "d", " ", "l", "i", "n", "e", " ",
           "n", "u", "m", "b", "e", "r", " ">> \o e.arg \o <<" ", "i", "n", " ", "G",
           "O", "T", "O", " ", "s", "t", "a", "t", "e", "m", "e", "n", "t">>
      [] e.msg = "NEXT doesn't match FOR" ->
           <<"N", "E", "X", "T", " ">> \o e.arg \o <<" ", "d", "o", "e", "s", "n", "'",
           "t", " ", "m", "a", "t", "c", "h", " ", "F", "O", "R", " ">> \o e.cause
      [] e.msg = "Syntax error: Unknown command" ->
           <<"S", "y", "n", "t", "a", "x", " ", "e", "r", "r", "o", "r", ":", " ", "U",
           "n", "k", "n", "o", "w", "n", " ", "c", "o", "m", "m", "a", "n", "d", " ",
           "'">> \o e.arg \o <<"'">>
      [] e.msg = "Error evaluating expression" ->
           <<"E", "r", "r", "o", "r", " ", "e", "v", "a", "l", "u", "a", "t", "i", "n",
           "g", " ", "e", "x", "p", "r", "e", "s", "s", "i", "o", "n", " ",
           "'">> \o e.arg \o <<"'", ":", " ">> \o e.cause
      [] e.msg = "Division by zero" ->
           <<"D", "i", "v", "i", "s", "i", "o", "n", " ", "b", "y", " ", "z", "e", "r",
           "o">>
      [] e.msg = "Invalid LET syntax" ->
           <<"I", "n", "v", "a", "l", "i", "d", " ", "L", "E", "T", " ", "s", "y", "n",
           "t", "a", "x">>
      [] e.msg = "Invalid GOTO syntax" ->
           <<"I", "n", "v", "a", "l", "i", "d", " ", "G", "O", "T", "O", " ", "s", "y",
           "n", "t", "a", "x">>
      [] e.msg = "Invalid IF syntax" ->
           <<"I", "n", "v", "a", "l", "i", "d", " ", "I", "F", " ", "s", "y", "n", "t",
           "a", "x">>
      [] e.msg = "Invalid FOR syntax" ->
           <<"I", "n", "v", "a", "l", "i", "d", " ", "F", "O", "R", " ", "s", "y", "n",
           "t", "a", "x">>
      [] e.msg = "NEXT without FOR" ->
           <<"N", "E", "X", "T", " ", "w", "i", "t", "h", "o", "u", "t", " ", "F", "O",
           "R">>
      [] e.msg = "KeyError" ->
           <<"'">> \o e.arg \o <<"'">>
      [] e.msg = "IndexError" ->
           <<"l", "i", "s", "t", " ", "i", "n", "d", "e", "x", " ", "o", "u", "t", " ",
           "o", "f", " ", "r", "a", "n", "g", "e">>
      [] e.msg = "ValueError" ->
           e.arg \o <<" ", "i", "s", " ", "n", "o", "t", " ", "i", "n", " ", "l", "i",
           "s", "t">>
      [] e.msg = "TypeError" ->
           <<"T", "y", "p", "e", "E", "r", "r", "o", "r">>

\* str(e) of the exception execute() raises (line 63) for e caught at line_num.
ExecuteMessage(line_num, e) ==
    <<"E", "r", "r", "o", "r", " ", "a", "t", " ", "l", "i", "n", "e", " ">> \o IntToStr(line_num) \o <<":", " ">>
        \o ErrorText(e)

\* The outcome of an evaluation: a value, or the exception raised.
Val(v) == [ok |-> TRUE, v |-> v, err |-> NoError]

Raise(e) == [ok |-> FALSE, v |-> IntV(0), err |-> e]

TypeError == Error("TypeError", <<>>)

\* The outcome of a comparison: the boolean b, or the exception raised.
Truth(b) == [ok |-> TRUE, b |-> b, err |-> NoError]

Untrue(e) == [ok |-> FALSE, b |-> FALSE, err |-> e]

\* Printable ASCII in code order (the grave accent left out), for the ordering
\* of str values.
Ascii ==
    <<" ", "!", "\"", "#", "$", "%", "&", "'", "(", ")", "*", "+", ",", "-", ".", "/",
      "0", "1", "2", "3", "4", "5", "6", "7", "8", "9", ":", ";", "<", "=", ">", "?",
      "@", "A", "B", "C", "D", "E", "F", "G", "H", "I", "J", "K", "L", "M", "N", "O",
      "P", "Q", "R", "S", "T", "U", "V", "W", "X", "Y", "Z", "[", "\\", "]", "^", "_",
      "a", "b", "c", "d", "e", "f", "g", "h", "i", "j", "k", "l", "m", "n", "o",
      "p", "q", "r", "s", "t", "u", "v", "w", "x", "y", "z", "{", "|", "}", "~">>

Ord(c) == IF c = "\t" THEN 0 ELSE CHOOSE i \in 1..Len(Ascii) : Ascii[i] = c

RECURSIVE StrLess(_, _)
StrLess(a, b) ==
    IF b = <<>> THEN FALSE
    ELSE IF a = <<>> THEN TRUE
    ELSE IF Head(a) = Head(b) THEN StrLess(Tail(a), Tail(b))
    ELSE Ord(Head(a)) < Ord(Head(b))

\* left + right
PyAdd(a, b) ==
    IF a.t = "str" /\ b.t = "str" THEN Val(StrV(a.s \o b.s))
    ELSE IF a.t = "int" /\ b.t = "int" THEN Val(IntV(a.n + b.n))
    ELSE IF IsNum(a) /\ IsNum(b) THEN Val(FloatV(a.n * b.d + b.n * a.d, a.d * b.d))
    ELSE Raise(TypeError)

\* left - right
PySub(a, b) ==
    IF a.t = "int" /\ b.t = "int" THEN Val(IntV(a.n - b.n))
    ELSE IF IsNum(a) /\ IsNum(b) THEN Val(FloatV(a.n * b.d - b.n * a.d, a.d * b.d))
    ELSE Raise(TypeError)

RECURSIVE Repeat(_, _)
Repeat(s, k) == IF k <= 0 THEN <<>> ELSE s \o Repeat(s, k - 1)

\* left * right
PyMul(a, b) ==
    IF a.t = "int" /\ b.t = "int" THEN Val(IntV(a.n * b.n))
    ELSE IF IsNum(a) /\ IsNum(b) THEN Val(FloatV(a.n * b.n, a.d * b.d))
    ELSE IF a.t = "str" /\ b.t = "int" THEN Val(StrV(Repeat(a.s, b.n)))
    ELSE IF a.t = "int" /\ b.t = "str" THEN Val(StrV(Repeat(b.s, a.n)))
    ELSE Raise(TypeError)

\* the division of _evaluate_arithmetic, with its test for a zero divisor
PyDiv(a, b) ==
    IF IsNum(b) /\ b.n = 0 THEN Raise(Error("Division by zero", <<>>))
    ELSE IF IsNum(a) /\ IsNum(b) THEN Val(FloatV(a.n * b.d, a.d * b.n))
    ELSE Raise(TypeError)

\* left == right
PyEq(a, b) ==
    IF IsNum(a) /\ IsNum(b) THEN a.n * b.d = b.n * a.d
    ELSE a.t = "str" /\ b.t = "str" /\ a.s = b.s

\* left < right, which raises between a str and a number
PyLess(a, b) ==
    IF IsNum(a) /\ IsNum(b) THEN Truth(a.n * b.d < b.n * a.d)
    ELSE IF a.t = "str" /\ b.t = "str" THEN Truth(StrLess(a.s, b.s))
    ELSE Untrue(TypeError)

\* left <= right
PyLessEq(a, b) ==
    IF IsNum(a) /\ IsNum(b) THEN Truth(a.n * b.d <= b.n * a.d)
    ELSE IF a.t = "str" /\ b.t = "str" THEN Truth(~StrLess(b.s, a.s))
    ELSE Untrue(TypeError)

\* float.is_integer()
IsInteger(v) == v.d = 1

\* the digits of the fraction r/d (0 <= r < d), at most k of them
RECURSIVE FracDigits(_, _, _)
FracDigits(r, d, k) ==
    IF r = 0 \/ k = 0 THEN <<>>
    ELSE <<DigitChar((10 * r) \div d)>> \o FracDigits((10 * r) % d, d, k - 1)

\* str(v).  A float whose expansion does not end is cut after 16 digits, which
\* is repr() only for some values.
ValueToStr(v) ==
    IF v.t = "str" THEN v.s
    ELSE IF v.t = "int" THEN IntToStr(v.n)
    ELSE IF v.d = 1 THEN IntToStr(v.n) \o <<".", "0">>
    ELSE (IF v.n < 0 THEN <<"-">> ELSE <<>>) \o NatToStr(Abs(v.n) \div v.d) \o <<".">>
         \o FracDigits(Abs(v.n) % v.d, v.d, 16)

RECURSIVE Pow10(_)
Pow10(k) == IF k = 0 THEN 1 ELSE 10 * Pow10(k - 1)

\* float(s) for the texts digits.digits with an optional sign (exponents, inf
\* and nan are left out); ok is FALSE where Python raises ValueError.
ParseFloat(s) ==
    LET Digits(negative, ip, fp) ==
            IF /\ ip \o fp # <<>>
               /\ \A i \in 1..Len(ip) : IsDigit(ip[i])
               /\ \A i \in 1..Len(fp) : IsDigit(fp[i])
            THEN [ok |-> TRUE,
                  v |-> FloatV(IF negative THEN 0 - DigitsVal(ip \o fp) ELSE DigitsVal(ip \o fp),
                               Pow10(Len(fp)))]
            ELSE [ok |-> FALSE, v |-> IntV(0)]
        Dotted(negative, body, dot) ==
            IF dot = 0 THEN [ok |-> FALSE, v |-> IntV(0)]
            ELSE Digits(negative, Upto(body, dot - 1), From(body, dot))
        Signed(negative, body) == Dotted(negative, body, FindSub(body, <<".">>))
        Parse(t) ==
            IF t # <<>> /\ t[1] \in {"+", "-"} THEN Signed(t[1] = "-", Tail(t))
            ELSE Signed(FALSE, t)
    IN  Parse(Strip(s))

\* The literal parse shared by _evaluate_expression and _evaluate_arithmetic:
\* float(expr) if '.' in expr else int(expr).
ParseNumber(expr) ==
    LET AsInt(r) == [ok |-> r.ok, v |-> IntV(r.n)]
    IN  IF Contains(expr, <<".">>) THEN ParseFloat(expr) ELSE AsInt(ParseInt(expr))

(***************************************************************************)
(* The expression evaluator.  env is self.variables, a function from       *)
(* variable names to values.                                               *)
(***************************************************************************)
\* The 1-based position of the operator the additive scan of
\* _evaluate_arithmetic splits at: the rightmost '+' or '-' that is not at the
\* start and does not follow an operator character; 0 when there is none.
AdditivePos(expr) ==
    LET Last(hits) == IF hits = {} THEN 0 ELSE Max(hits)
    IN  Last({p \in 2..Len(expr) :
                 /\ expr[p] \in {"+", "-"}
                 /\ expr[p - 1] \notin {"*", "/", "+", "-", "(", "=", "<", ">"}})

\* The position the multiplicative scan splits at: the rightmost '*' or '/'.
MultiplicativePos(expr) ==
    LET Last(hits) == IF hits = {} THEN 0 ELSE Max(hits)
    IN  Last({p \in 1..Len(expr) : expr[p] \in {"*", "/"}})

\* The while loop that looks for the parenthesis matching the first '(':
\* end is the 0-based scan index, count the nesting depth.
RECURSIVE ParenScan(_, _, _)
ParenScan(expr, end, count) ==
    IF end < Len(expr) /\ count > 0
    THEN ParenScan(expr, end + 1,
                   IF expr[end + 1] = "(" THEN count + 1
                   ELSE IF expr[end + 1] = ")" THEN count - 1
                   ELSE count)
    ELSE [end |-> end, count |-> count]

\* The last resort of _evaluate_arithmetic: a variable, a number, or the error.
EvaluateAtom(expr, env) ==
    LET Number(num) ==
            IF num.ok THEN Val(num.v) ELSE Raise(Error("Cannot evaluate expression: ", expr))
    IN  IF expr \in DOMAIN env THEN Val(env[expr]) ELSE Number(ParseNumber(expr))

ApplyOperator(op, left, right) ==
    CASE op = "+" -> PyAdd(left, right)
      [] op = "-" -> PySub(left, right)
      [] op = "*" -> PyMul(left, right)
      [] op = "/" -> PyDiv(left, right)

\* result = left op right once both sides are evaluated; the exception of the
\* first side that raised otherwise.
Combine(op, left, right) ==
    IF ~left.ok THEN left
    ELSE IF ~right.ok THEN right
    ELSE ApplyOperator(op, left.v, right.v)

RECURSIVE EvaluateExpression(_, _)
RECURSIVE EvaluateLiteral(_, _, _)
RECURSIVE EvaluateArithmetic(_, _)
RECURSIVE EvaluateScan(_, _, _, _)
RECURSIVE EvaluateBinary(_, _, _)
RECURSIVE EvaluateParens(_, _)
RECURSIVE EvaluateMatched(_, _, _, _)
RECURSIVE EvaluateInner(_, _, _, _, _)
RECURSIVE EvaluateSubstituted(_, _, _, _)

\* The split of expr at position p: both sides are evaluated, left first.
EvaluateBinary(expr, p, env) ==
    Combine(expr[p], EvaluateExpression(Upto(expr, p - 1), env),
                     EvaluateExpression(From(expr, p), env))

\* if new_expr != expr: return self._evaluate_expression(new_expr), once the
\* inner expression has a value; the last resort otherwise.
EvaluateSubstituted(expr, env, result, new_expr) ==
    IF ~result.ok THEN result
    ELSE IF new_expr # expr THEN EvaluateExpression(new_expr, env)
    ELSE EvaluateAtom(expr, env)

\* new_expr = expr[:start] + str(inner_result) + expr[end:]
EvaluateInner(expr, env, start, end, result) ==
    EvaluateSubstituted(expr, env, result,
                        Upto(expr, start) \o ValueToStr(result.v) \o From(expr, end))

\* if paren_count == 0: the inner expression expr[start+1:end-1] is evaluated.
EvaluateMatched(expr, env, start, scan) ==
    IF scan.count # 0 THEN EvaluateAtom(expr, env)
    ELSE EvaluateInner(expr, env, start, scan.end,
                       EvaluateExpression(SubSeq(expr, start + 2, scan.end - 1), env))

\* The parenthesis step: the first '(' and its match are replaced by the text
\* of the value of what they enclose, and the new text is evaluated.
EvaluateParens(expr, env) ==
    EvaluateMatched(expr, env, FindSub(expr, <<"(">>) - 1,
                    ParenScan(expr, FindSub(expr, <<"(">>), 1))

\* Scans that split at a multiplicative operator before an additive one.
EvaluateScanMultiplicativeFirst(expr, additive, multiplicative, env) ==
    IF additive # 0 \/ multiplicative # 0
    THEN EvaluateBinary(expr, IF multiplicative # 0 THEN multiplicative ELSE additive, env)
    ELSE IF Contains(expr, <<"(">>) /\ Contains(expr, <<")">>)
    THEN EvaluateParens(expr, env)
    ELSE EvaluateAtom(expr, env)

\* The scans of _evaluate_arithmetic over the stripped text: additive first,
\* then multiplicative, then parentheses, then the last resort.
EvaluateScan(expr, additive, multiplicative, env) ==
    IF additive # 0 \/ multiplicative # 0
    THEN EvaluateBinary(expr, IF additive # 0 THEN additive ELSE multiplicative, env)
    ELSE IF Contains(expr, <<"(">>) /\ Contains(expr, <<")">>)
    THEN EvaluateParens(expr, env)
    ELSE EvaluateAtom(expr, env)

EvaluateArithmetic(expr, env) ==
    EvaluateScan(Strip(expr), AdditivePos(Strip(expr)), MultiplicativePos(Strip(expr)), env)

\* _evaluate_expression on the stripped text: a string literal, a variable, a
\* number (num is its parse), or arithmetic.
EvaluateLiteral(expr, num, env) ==
    IF Quoted(expr) THEN Val(StrV(Inside(expr)))
    ELSE IF expr \in DOMAIN env THEN Val(env[expr])
    ELSE IF num.ok THEN Val(num.v)
    ELSE EvaluateArithmetic(expr, env)

EvaluateExpression(expr, env) ==
    EvaluateLiteral(Strip(expr), ParseNumber(Strip(expr)), env)

Compare(op, left, right) ==
    CASE op = ">" -> PyLess(right, left)
      [] op = "<" -> PyLess(left, right)
      [] op = "=" -> Truth(PyEq(left, right))

\* The operator _evaluate_condition splits at: the first of '>', '<', '=' (tried
\* in that order) that occurs in the condition; "" when none does.
ConditionOp(condition) ==
    IF Contains(condition, <<">">>) THEN ">"
    ELSE IF Contains(condition, <<"<">>) THEN "<"
    ELSE IF Contains(condition, <<"=">>) THEN "="
    ELSE ""

EvaluateCondition(condition0, env) ==
    LET Decide(op, left, right) ==
            IF ~left.ok THEN Untrue(left.err)
            ELSE IF ~right.ok THEN Untrue(right.err)
            ELSE Compare(op, left.v, right.v)
        Sides(op, parts) ==
            Decide(op, EvaluateExpression(parts[1], env), EvaluateExpression(parts[2], env))
        Split(condition, op) ==
            IF op = "" THEN Truth(FALSE) ELSE Sides(op, Split1(condition, <<op>>))
        Stripped(condition) == Split(condition, ConditionOp(condition))
    IN  Stripped(Strip(condition0))

(***************************************************************************)
(* The interpreter.  self is the record of the instance's fields, with the *)
(* text written to standard output so far as stdout.  A handler yields an  *)
(* outcome: the instance after it, what _execute_statement returns (ret),  *)
(* the exception it raised (err, NoError when none) and the statements it  *)
(* dispatched to _execute_statement in turn (log).                         *)
(***************************************************************************)
Returned(self, ret) == [self |-> self, ret |-> ret, err |-> NoError, log |-> <<>>]

Raised(self, e) == [self |-> self, ret |-> FALSE, err |-> e, log |-> <<>>]

\* d[k] = v
SetItem(d, k, v) == [x \in DOMAIN d \cup {k} |-> IF x = k THEN v ELSE d[x]]

\* print(text)
PrintLine(self, line) == [self EXCEPT !.stdout = @ \o line \o <<"\n">>]

\* xs.index(x), 0-based, for x in xs
IndexOf(xs, x) == Min({i \in 1..Len(xs) : xs[i] = x}) - 1

InSeq(xs, x) == \E i \in 1..Len(xs) : xs[i] = x

\* sep.join(parts)
RECURSIVE Join(_, _)
Join(parts, sep) ==
    IF Len(parts) = 0 THEN <<>>
    ELSE IF Len(parts) = 1 THEN parts[1]
    ELSE parts[1] \o sep \o Join(Tail(parts), sep)

\* parts.append(current_part.strip()) if current_part.strip()
AppendPart(parts, current_part) ==
    LET Kept(part) == IF part # <<>> THEN Append(parts, part) ELSE parts
    IN  Kept(Strip(current_part))

\* A scan that splits at every semicolon, quoted or not.
RECURSIVE PrintScanUnquoted(_, _, _, _, _)
PrintScanUnquoted(expr, i, parts, current_part, in_quotes) ==
    IF i >= Len(expr) THEN AppendPart(parts, current_part)
    ELSE PrintScanUnquoted(expr, i + 1,
                           IF expr[i + 1] = ";"
                           THEN AppendPart(parts, current_part) ELSE parts,
                           IF expr[i + 1] = ";"
                           THEN <<>> ELSE Append(current_part, expr[i + 1]),
                           in_quotes)

\* The scan of _parse_print_parts from 0-based index i on: parts found so far,
\* the part being read and whether the scan is inside a quoted span.
RECURSIVE PrintScan(_, _, _, _, _)
PrintScan(expr, i, parts, current_part, in_quotes) ==
    IF i >= Len(expr) THEN AppendPart(parts, current_part)
    ELSE PrintScan(expr, i + 1,
                   IF expr[i + 1] = ";" /\ ~in_quotes
                   THEN AppendPart(parts, current_part) ELSE parts,
                   IF expr[i + 1] = ";" /\ ~in_quotes
                   THEN <<>> ELSE Append(current_part, expr[i + 1]),
                   IF expr[i + 1] = "\"" THEN ~in_quotes ELSE in_quotes)

ParsePrintParts(expr) == PrintScan(expr, 0, <<>>, <<>>, FALSE)

\* The text PRINT shows for a value: a float without fraction shows as an int.
Rendered(v) == IF v.t = "float" /\ IsInteger(v) THEN IntToStr(v.n) ELSE ValueToStr(v)

\* The loop of _execute_print over the parts: the texts to show, or the
\* exception of the first part that does not evaluate.
\* The value one part of a PRINT shows: the text of a quoted part, the
\* rendering of the value of any other.
PrintPart(part, env) ==
    LET Render(result) == IF result.ok THEN Val(Rendered(result.v)) ELSE result
    IN  IF Quoted(part) THEN Val(Inside(part)) ELSE Render(EvaluateExpression(part, env))

RECURSIVE PrintParts(_, _, _)
RECURSIVE PrintShown(_, _, _, _, _)

PrintShown(parts, env, output_parts, part, result) ==
    IF part = <<";">> THEN PrintParts(Tail(parts), env, output_parts)
    ELSE IF result.ok THEN PrintParts(Tail(parts), env, Append(output_parts, result.v))
    ELSE [ok |-> FALSE, parts |-> <<>>,
          err |-> [msg |-> "Error evaluating expression", arg |-> part,
                   cause |-> ErrorText(result.err)]]

PrintParts(parts, env, output_parts) ==
    IF Len(parts) = 0 THEN [ok |-> TRUE, parts |-> output_parts, err |-> NoError]
    ELSE PrintShown(parts, env, output_parts, Strip(Head(parts)),
                    PrintPart(Strip(Head(parts)), env))

ExecutePrint(self, statement) ==
    LET Show(shown) ==
            IF ~shown.ok THEN Raised(self, shown.err)
            ELSE Returned(PrintLine(self, Join(shown.parts, <<" ">>)), TRUE)
        Parts(expr) ==
            IF expr = <<>> THEN Returned(PrintLine(self, <<>>), TRUE)
            ELSE Show(PrintParts(ParsePrintParts(expr), self.variables, <<>>))
    IN  Parts(Strip(From(statement, 5)))

ExecuteLet(self, statement) ==
    LET Assign(var_name, value) ==
            IF ~value.ok THEN Raised(self, value.err)
            ELSE Returned([self EXCEPT !.variables = SetItem(@, var_name, value.v)], TRUE)
        Parts(parts) ==
            IF Len(parts) # 2 THEN Raised(self, Error("Invalid LET syntax", <<>>))
            ELSE Assign(Strip(parts[1]), EvaluateExpression(Strip(parts[2]), self.variables))
    IN  Parts(Split1(Strip(From(statement, 3)), <<"=">>))

\* A GOTO that set the counter to the index of the target itself.
ExecuteGotoExact(self, target_line) ==
    IF ~target_line.ok THEN Raised(self, Error("Invalid GOTO syntax", <<>>))
    ELSE IF InSeq(self.line_numbers, target_line.n)
    THEN Returned([self EXCEPT !.program_counter = IndexOf(self.line_numbers, target_line.n)],
                  TRUE)
    ELSE Raised(self, Error("Undefined line number in GOTO statement",
                            IntToStr(target_line.n)))

\* A GOTO that let an absent target pass.
ExecuteGotoSilent(self, target_line) ==
    IF ~target_line.ok THEN Raised(self, Error("Invalid GOTO syntax", <<>>))
    ELSE IF InSeq(self.line_numbers, target_line.n)
    THEN Returned([self EXCEPT !.program_counter =
                                   IndexOf(self.line_numbers, target_line.n) - 1],
                  TRUE)
    ELSE Returned(self, TRUE)

\* A GOTO that set the counter two below the index of the target.
ExecuteGotoBelow(self, target_line) ==
    IF ~target_line.ok THEN Raised(self, Error("Invalid GOTO syntax", <<>>))
    ELSE IF InSeq(self.line_numbers, target_line.n)
    THEN Returned([self EXCEPT !.program_counter =
                                   IndexOf(self.line_numbers, target_line.n) - 2],
                  TRUE)
    ELSE Raised(self, Error("Undefined line number in GOTO statement",
                            IntToStr(target_line.n)))

\* The body of _execute_goto once int(line_num_str) is tried: target_line is
\* the parse.
ExecuteGotoLine(self, target_line) ==
    IF ~target_line.ok THEN Raised(self, Error("Invalid GOTO syntax", <<>>))
    ELSE IF InSeq(self.line_numbers, target_line.n)
    THEN Returned([self EXCEPT !.program_counter =
                                   IndexOf(self.line_numbers, target_line.n) - 1],
                  TRUE)
    ELSE Raised(self, Error("Undefined line number in GOTO statement",
                            IntToStr(target_line.n)))

ExecuteGoto(self, statement) == ExecuteGotoLine(self, ParseInt(Strip(From(statement, 4))))

\* A loop frame, as _execute_for pushes it.
Frame(var, end, step, line) == [var |-> var, end |-> end, step |-> step, line |-> line]

\* A FOR that tested the bound at entry and opened no loop when the start
\* value is already beyond it.
ExecuteForTesting(self, statement) ==
    LET Push(var_name, start_value, end_value, step_value) ==
            IF ~start_value.ok THEN Raised(self, start_value.err)
            ELSE IF ~end_value.ok THEN Raised(self, end_value.err)
            ELSE IF ~step_value.ok THEN Raised(self, step_value.err)
            ELSE IF ~PyLessEq(start_value.v, end_value.v).b
            THEN Returned(self, TRUE)
            ELSE Returned([self EXCEPT
                              !.variables = SetItem(@, var_name, start_value.v),
                              !.for_stack =
                                  Append(@, Frame(var_name, end_value.v, step_value.v,
                                                  self.line_numbers[self.program_counter + 1]))],
                          TRUE)
        Parts(parts) ==
            IF Len(parts) < 5 \/ parts[3] # <<"=">> \/ parts[5] # <<"T", "O">>
            THEN Raised(self, Error("Invalid FOR syntax", <<>>))
            ELSE Push(parts[2],
                      EvaluateExpression(parts[4], self.variables),
                      IF Len(parts) < 6 THEN Raise(Error("IndexError", <<>>))
                      ELSE EvaluateExpression(parts[6], self.variables),
                      IF Len(parts) >= 8 /\ parts[7] = <<"S", "T", "E", "P">>
                      THEN EvaluateExpression(parts[8], self.variables)
                      ELSE Val(IntV(1)))
    IN  Parts(SplitWs(Strip(From(statement, 3))))

ExecuteFor(self, statement) ==
    LET Push(var_name, start_value, end_value, step_value) ==
            IF ~start_value.ok THEN Raised(self, start_value.err)
            ELSE IF ~end_value.ok THEN Raised(self, end_value.err)
            ELSE IF ~step_value.ok THEN Raised(self, step_value.err)
            ELSE Returned([self EXCEPT
                              !.variables = SetItem(@, var_name, start_value.v),
                              !.for_stack =
                                  Append(@, Frame(var_name, end_value.v, step_value.v,
                                                  self.line_numbers[self.program_counter + 1]))],
                          TRUE)
        Parts(parts) ==
            IF Len(parts) < 5 \/ parts[3] # <<"=">> \/ parts[5] # <<"T", "O">>
            THEN Raised(self, Error("Invalid FOR syntax", <<>>))
            ELSE Push(parts[2],
                      EvaluateExpression(parts[4], self.variables),
                      IF Len(parts) < 6 THEN Raise(Error("IndexError", <<>>))
                      ELSE EvaluateExpression(parts[6], self.variables),
                      IF Len(parts) >= 8 /\ parts[7] = <<"S", "T", "E", "P">>
                      THEN EvaluateExpression(parts[8], self.variables)
                      ELSE Val(IntV(1)))
    IN  Parts(SplitWs(Strip(From(statement, 3))))

\* A test that takes a step of 0 for an upward step.
LoopContinuesAtZero(step, new_value, end) ==
    LET Or(first, second) == IF ~first.ok \/ first.b THEN first ELSE second
        And(first, second) == IF ~first.ok \/ ~first.b THEN first ELSE second
    IN  Or(And(PyLessEq(IntV(0), step), PyLessEq(new_value, end)),
           And(PyLess(step, IntV(0)), PyLessEq(end, new_value)))

\* The test of _execute_next that the loop goes on:
\* (step > 0 and new <= end) or (step < 0 and new >= end).
LoopContinues(step, new_value, end) ==
    LET Or(first, second) == IF ~first.ok \/ first.b THEN first ELSE second
        And(first, second) == IF ~first.ok \/ ~first.b THEN first ELSE second
    IN  Or(And(PyLess(IntV(0), step), PyLessEq(new_value, end)),
           And(PyLess(step, IntV(0)), PyLessEq(end, new_value)))

\* A NEXT that closed every open loop when the innermost one ended.
ExecuteNextStepClearing(self, loop_info) ==
    LET Decide(stepped, goes_on) ==
            IF ~goes_on.ok THEN Raised(stepped, goes_on.err)
            ELSE IF ~goes_on.b
            THEN Returned([stepped EXCEPT !.for_stack = <<>>], TRUE)
            ELSE IF InSeq(self.line_numbers, loop_info.line)
            THEN Returned([stepped EXCEPT !.program_counter =
                                              IndexOf(self.line_numbers, loop_info.line)],
                          TRUE)
            ELSE Raised(stepped, Error("ValueError", IntToStr(loop_info.line)))
        Step(new_value) ==
            IF ~new_value.ok THEN Raised(self, new_value.err)
            ELSE Decide([self EXCEPT !.variables = SetItem(@, loop_info.var, new_value.v)],
                        LoopContinues(loop_info.step, new_value.v, loop_info.end))
    IN  IF loop_info.var \notin DOMAIN self.variables
        THEN Raised(self, Error("KeyError", loop_info.var))
        ELSE Step(PyAdd(self.variables[loop_info.var], loop_info.step))

\* A NEXT that jumped the way GOTO does, so that the FOR is executed again.
ExecuteNextStepReopening(self, loop_info) ==
    LET Decide(stepped, goes_on) ==
            IF ~goes_on.ok THEN Raised(stepped, goes_on.err)
            ELSE IF ~goes_on.b
            THEN Returned([stepped EXCEPT !.for_stack = Upto(@, Len(@) - 1)], TRUE)
            ELSE IF InSeq(self.line_numbers, loop_info.line)
            THEN Returned([stepped EXCEPT !.program_counter =
                                              IndexOf(self.line_numbers, loop_info.line) - 1],
                          TRUE)
            ELSE Raised(stepped, Error("ValueError", IntToStr(loop_info.line)))
        Step(new_value) ==
            IF ~new_value.ok THEN Raised(self, new_value.err)
            ELSE Decide([self EXCEPT !.variables = SetItem(@, loop_info.var, new_value.v)],
                        LoopContinues(loop_info.step, new_value.v, loop_info.end))
    IN  IF loop_info.var \notin DOMAIN self.variables
        THEN Raised(self, Error("KeyError", loop_info.var))
        ELSE Step(PyAdd(self.variables[loop_info.var], loop_info.step))

\* The step of _execute_next (lines 205-218): the loop variable is stepped and
\* the loop goes on at the FOR line or ends.
ExecuteNextStep(self, loop_info) ==
    LET Decide(stepped, goes_on) ==
            IF ~goes_on.ok THEN Raised(stepped, goes_on.err)
            ELSE IF ~goes_on.b
            THEN Returned([stepped EXCEPT !.for_stack = Upto(@, Len(@) - 1)], TRUE)
            ELSE IF InSeq(self.line_numbers, loop_info.line)
            THEN Returned([stepped EXCEPT !.program_counter =
                                              IndexOf(self.line_numbers, loop_info.line)],
                          TRUE)
            ELSE Raised(stepped, Error("ValueError", IntToStr(loop_info.line)))
        Step(new_value) ==
            IF ~new_value.ok THEN Raised(self, new_value.err)
            ELSE Decide([self EXCEPT !.variables = SetItem(@, loop_info.var, new_value.v)],
                        LoopContinues(loop_info.step, new_value.v, loop_info.end))
    IN  IF loop_info.var \notin DOMAIN self.variables
        THEN Raised(self, Error("KeyError", loop_info.var))
        ELSE Step(PyAdd(self.variables[loop_info.var], loop_info.step))

\* A NEXT that closed the innermost loop whatever variable it names.
ExecuteNextAnyName(self, var_name, loop_info) == ExecuteNextStep(self, loop_info)

\* _execute_next on a non-empty stack (lines 195-218): var_name is the name
\* given (empty when none), loop_info the top frame.
ExecuteNextTop(self, var_name, loop_info) ==
    IF var_name # <<>> /\ var_name # loop_info.var
    THEN Raised(self, [msg |-> "NEXT doesn't match FOR", arg |-> var_name,
                       cause |-> loop_info.var])
    ELSE ExecuteNextStep(self, loop_info)

\* A NEXT that did nothing when no loop is open.
ExecuteNextUnchecked(self, statement) ==
    IF Len(self.for_stack) = 0 THEN Returned(self, TRUE)
    ELSE ExecuteNextTop(self, IF Len(statement) > 4 THEN Strip(From(statement, 4)) ELSE <<>>,
                        self.for_stack[Len(self.for_stack)])

ExecuteNext(self, statement) ==
    IF Len(self.for_stack) = 0 THEN Raised(self, Error("NEXT without FOR", <<>>))
    ELSE ExecuteNextTop(self, IF Len(statement) > 4 THEN Strip(From(statement, 4)) ELSE <<>>,
                        self.for_stack[Len(self.for_stack)])

\* The conversion _execute_input applies to the line read.
InputValue(value) ==
    LET Or(num) == IF num.ok THEN num.v ELSE StrV(value)
    IN  Or(ParseNumber(value))

\* value is the line the host's input() returns; the prompt goes to stdout.
ExecuteInput(self, statement, value) ==
    LET Store(prompt, var_name) ==
            Returned([self EXCEPT !.stdout = @ \o prompt,
                                  !.variables = SetItem(@, var_name, InputValue(value))],
                     TRUE)
        Prompted(prompt, var_name) ==
            Store(IF Quoted(prompt) THEN Inside(prompt) ELSE <<>>, var_name)
        Parts(expr, parts) ==
            IF Len(parts) = 2 THEN Prompted(Strip(parts[1]), Strip(parts[2]))
            ELSE Store(<<"?", " ">>, expr)
        Form(expr) == Parts(expr, Split1(expr, <<";">>))
    IN  Form(Strip(From(statement, 5)))

\* What _execute_if does with the outcome of the nested statement: its return
\* value is dropped, its exception propagates.
IfTaken(nested) == IF nested.err # NoError THEN nested ELSE [nested EXCEPT !.ret = TRUE]

\* The outcome of _execute_statement, with the statement put first in the log.
Logged(statement, outcome) == [outcome EXCEPT !.log = <<statement>> \o @]

RECURSIVE ExecuteStatement(_, _, _)
RECURSIVE Dispatch(_, _, _)
RECURSIVE ExecuteIf(_, _, _)
RECURSIVE ExecuteIfParts(_, _, _)
RECURSIVE ExecuteThen(_, _, _, _)

\* An IF that dispatched the consequent whatever the condition.
ExecuteThenAlways(self, then_part, holds, value) ==
    IF ~holds.ok THEN Raised(self, holds.err)
    ELSE IfTaken(ExecuteStatement(self, then_part, value))

\* if self._evaluate_condition(condition): self._execute_statement(then_part)
ExecuteThen(self, then_part, holds, value) ==
    IF ~holds.ok THEN Raised(self, holds.err)
    ELSE IF ~holds.b THEN Returned(self, TRUE)
    ELSE IfTaken(ExecuteStatement(self, then_part, value))

\* parts = statement[2:].strip().split(' THEN ', 1)
ExecuteIfParts(self, parts, value) ==
    IF Len(parts) # 2 THEN Raised(self, Error("Invalid IF syntax", <<>>))
    ELSE ExecuteThen(self, Strip(parts[2]),
                     EvaluateCondition(Strip(parts[1]), self.variables), value)

ExecuteIf(self, statement, value) ==
    ExecuteIfParts(self, Split1(Strip(From(statement, 2)), <<" ", "T", "H", "E", "N", " ">>),
                   value)

\* The handler _execute_statement picks for the (stripped) statement.
Dispatch(self, statement, value) ==
    IF StartsWith(statement, <<"P", "R", "I", "N", "T">>) THEN ExecutePrint(self, statement)
    ELSE IF StartsWith(statement, <<"L", "E", "T">>) THEN ExecuteLet(self, statement)
    ELSE IF StartsWith(statement, <<"G", "O", "T", "O">>) THEN ExecuteGoto(self, statement)
    ELSE IF StartsWith(statement, <<"I", "F">>) THEN ExecuteIf(self, statement, value)
    ELSE IF StartsWith(statement, <<"F", "O", "R">>) THEN ExecuteFor(self, statement)
    ELSE IF StartsWith(statement, <<"N", "E", "X", "T">>) THEN ExecuteNext(self, statement)
    ELSE IF StartsWith(statement, <<"I", "N", "P", "U", "T">>)
    THEN ExecuteInput(self, statement, value)
    ELSE IF StartsWith(statement, <<"R", "E", "M">>) THEN Returned(self, TRUE)
    ELSE IF StartsWith(statement, <<"E", "N", "D">>) THEN Returned(self, FALSE)
    ELSE Raised(self, Error("Syntax error: Unknown command", statement))

ExecuteStatement(self, statement, value) ==
    Logged(Strip(statement), Dispatch(self, Strip(statement), value))

(***************************************************************************)
(* The program store.                                                      *)
(***************************************************************************)
\* s.split('\n')
RECURSIVE SplitLines(_)
SplitLines(s) ==
    LET At(i) == IF i = 0 THEN <<s>> ELSE <<Upto(s, i - 1)>> \o SplitLines(From(s, i))
    IN  At(FindSub(s, <<"\n">>))

\* sorted(S, reverse=True): a loader that kept the lines in descending order.
RECURSIVE SortedDescending(_)
SortedDescending(S) ==
    IF S = {} THEN <<>> ELSE <<Max(S)>> \o SortedDescending(S \ {Max(S)})

\* sorted(S) for a finite set of integers
RECURSIVE Sorted(_)
Sorted(S) ==
    LET After(least) == <<least>> \o Sorted(S \ {least})
    IN  IF S = {} THEN <<>> ELSE After(Min(S))

\* A loop that kept the first statement given for a line number.
RECURSIVE StoreLinesFirst(_, _)
StoreLinesFirst(lines, program) ==
    LET Keyed(parts, line_num) ==
            IF ~line_num.ok \/ line_num.n \in DOMAIN program THEN program
            ELSE SetItem(program, line_num.n, parts[2])
        Parts(parts) == IF Len(parts) < 2 THEN program ELSE Keyed(parts, ParseInt(parts[1]))
        Stored(line) == IF line = <<>> THEN program ELSE Parts(Split1(line, <<" ">>))
    IN  IF Len(lines) = 0 THEN program
        ELSE StoreLinesFirst(Tail(lines), Stored(Strip(Head(lines))))

\* The loop of load_program over the physical lines: program after them.
RECURSIVE StoreLines(_, _)
StoreLines(lines, program) ==
    LET Keyed(parts, line_num) ==
            IF ~line_num.ok THEN program ELSE SetItem(program, line_num.n, parts[2])
        Parts(parts) == IF Len(parts) < 2 THEN program ELSE Keyed(parts, ParseInt(parts[1]))
        Stored(line) == IF line = <<>> THEN program ELSE Parts(Split1(line, <<" ">>))
    IN  IF Len(lines) = 0 THEN program
        ELSE StoreLines(Tail(lines), Stored(Strip(Head(lines))))

\* BasicInterpreter.__init__
NewInterpreter ==
    [program |-> <<>>, variables |-> <<>>, program_counter |-> 0, line_numbers |-> <<>>,
     for_stack |-> <<>>, return_stack |-> <<>>, stdout |-> <<>>]

\* A load_program that cleared neither the variables nor the stacks.
LoadProgramKeeping(self, program_text) ==
    LET Loaded(loaded) ==
            [self EXCEPT !.program = loaded, !.line_numbers = Sorted(DOMAIN loaded)]
    IN  Loaded(StoreLines(SplitLines(Strip(program_text)), <<>>))

LoadProgram(self, program_text) ==
    LET Loaded(loaded) ==
            [self EXCEPT !.program = loaded,
                         !.variables = <<>>,
                         !.for_stack = <<>>,
                         !.return_stack = <<>>,
                         !.line_numbers = Sorted(DOMAIN loaded)]
    IN  Loaded(StoreLines(SplitLines(Strip(program_text)), <<>>))

\* The statement the run loop fetches: self.program[self.line_numbers[pc]].
CurrentLine(self) == self.line_numbers[self.program_counter + 1]

CurrentStatement(self) == self.program[CurrentLine(self)]

(***************************************************************************)
(* The state: the fields of one BasicInterpreter instance, the text it has *)
(* written to standard output since the last load_program, and the         *)
(* position of the caller in run()/execute().                              *)
(*   phase     "idle" (no execute() in progress or finished since the last *)
(*             load), "running" (at the head of the run loop), "handled"   *)
(*             (_execute_statement has returned, line 60 is next), "done"  *)
(*             (execute() has returned or raised)                          *)
(*   failure   the exception execute() raised: the line it is tagged with  *)
(*             and the exception caught                                    *)
(* History, for stating properties:                                        *)
(*   executed  the line numbers whose statements this execute() ran        *)
(*   last      the latest of them: its line, what was dispatched, what     *)
(*             _execute_statement returned or raised, the instance before  *)
(*   text      the program text last loaded                                *)
(*   stale     the variable names bound when text was loaded               *)
(*   executes  the calls of execute() since the last load_program          *)
(*   loads     the calls of load_program on this instance                  *)
(***************************************************************************)
VARIABLES program, variables, program_counter, line_numbers, for_stack, return_stack,
          stdout, phase, failure, executed, last, text, stale, executes, loads

vars == <<program, variables, program_counter, line_numbers, for_stack, return_stack,
          stdout, phase, failure, executed, last, text, stale, executes, loads>>

Self ==
    [program |-> program, variables |-> variables, program_counter |-> program_counter,
     line_numbers |-> line_numbers, for_stack |-> for_stack,
     return_stack |-> return_stack, stdout |-> stdout]

Becomes(self) ==
    /\ program' = self.program
    /\ variables' = self.variables
    /\ program_counter' = self.program_counter
    /\ line_numbers' = self.line_numbers
    /\ for_stack' = self.for_stack
    /\ return_stack' = self.return_stack
    /\ stdout' = self.stdout

NoFailure == [line |-> 0, err |-> NoError]

NoLast ==
    [line |-> 0, log |-> <<>>, ret |-> TRUE, err |-> NoError, before |-> NewInterpreter]

Init ==
    /\ program = NewInterpreter.program
    /\ variables = NewInterpreter.variables
    /\ program_counter = NewInterpreter.program_counter
    /\ line_numbers = NewInterpreter.line_numbers
    /\ for_stack = NewInterpreter.for_stack
    /\ return_stack = NewInterpreter.return_stack
    /\ stdout = NewInterpreter.stdout
    /\ phase = "idle"
    /\ failure = NoFailure
    /\ executed = <<>>
    /\ last = NoLast
    /\ text = <<>>
    /\ stale = {}
    /\ executes = 0
    /\ loads = 0

\* The lines the host's input() may return.
InputLines == {<<"1">>, <<"N">>}

\* execute() up to the head of the run loop (lines 49-52).
ExecuteEntry(self) ==
    IF DOMAIN self.program = {} THEN self ELSE [self EXCEPT !.program_counter = 0]

Idle == phase \in {"idle", "done"}

\* load_program(program_text), called on its own
Load(program_text) ==
    /\ Idle
    /\ \E loaded \in {[LoadProgram(Self, program_text) EXCEPT !.stdout = <<>>]} :
          Becomes(loaded)
    /\ phase' = "idle"
    /\ failure' = NoFailure
    /\ executed' = <<>>
    /\ last' = NoLast
    /\ text' = program_text
    /\ stale' = DOMAIN variables
    /\ executes' = 0
    /\ loads' = loads + 1

\* execute(), called on its own, up to the head of the run loop
Execute ==
    /\ Idle
    /\ Becomes(ExecuteEntry(Self))
    /\ phase' = IF DOMAIN program = {} THEN "done" ELSE "running"
    /\ failure' = NoFailure
    /\ executed' = <<>>
    /\ last' = NoLast
    /\ executes' = executes + 1
    /\ UNCHANGED <<text, stale, loads>>

\* run(program_text): load_program, then execute() up to the head of the loop
Run(program_text) ==
    /\ Idle
    /\ \E loaded \in {[LoadProgram(Self, program_text) EXCEPT !.stdout = <<>>]} :
          /\ Becomes(ExecuteEntry(loaded))
          /\ phase' = IF DOMAIN loaded.program = {} THEN "done" ELSE "running"
    /\ failure' = NoFailure
    /\ executed' = <<>>
    /\ last' = NoLast
    /\ text' = program_text
    /\ stale' = DOMAIN variables
    /\ executes' = 1
    /\ loads' = loads + 1

\* A run loop that went on to line 60 after an exception.
HandledResuming(line_num, outcome) ==
    /\ Becomes(outcome.self)
    /\ executed' = Append(executed, line_num)
    /\ last' = [line |-> line_num, log |-> outcome.log, ret |-> TRUE,
                err |-> outcome.err, before |-> Self]
    /\ phase' = "handled"
    /\ failure' = failure

\* What the pass does with the outcome of _execute_statement: lines 62-63 when
\* it raised, else on to line 59.
Handled(line_num, outcome) ==
    /\ Becomes(outcome.self)
    /\ executed' = Append(executed, line_num)
    /\ last' = [line |-> line_num, log |-> outcome.log, ret |-> outcome.ret,
                err |-> outcome.err, before |-> Self]
    /\ phase' = IF outcome.err # NoError THEN "done" ELSE "handled"
    /\ failure' = IF outcome.err # NoError
                  THEN [line |-> line_num, err |-> outcome.err]
                  ELSE failure

\* One pass of the run loop up to the return of _execute_statement (lines
\* 54-59), and lines 62-63 when it raises.
ExecuteLine ==
    /\ phase = "running"
    /\ Len(executed) < MaxSteps
    /\ \E value \in IF Contains(CurrentStatement(Self), <<"I", "N", "P", "U", "T">>)
                     THEN InputLines ELSE {<<>>} :
          \E outcome \in {ExecuteStatement(Self, CurrentStatement(Self), value)} :
             Handled(CurrentLine(Self), outcome)
    /\ UNCHANGED <<text, stale, executes, loads>>

\* A run loop that stepped the counter after END too.
AdvancePastEnd ==
    /\ phase = "handled"
    /\ program_counter' = program_counter + 1
    /\ phase' = IF program_counter + 1 < Len(line_numbers) THEN "running" ELSE "done"
    /\ UNCHANGED <<program, variables, line_numbers, for_stack, return_stack, stdout,
                   failure, executed, last, text, stale, executes, loads>>

\* The rest of the pass (lines 59-61) and the loop test (line 54): break when
\* _execute_statement returned False, else step the counter and go on while it
\* is below len(line_numbers).
Advance ==
    /\ phase = "handled"
    /\ IF ~last.ret
       THEN /\ phase' = "done"
            /\ program_counter' = program_counter
       ELSE /\ program_counter' = program_counter + 1
            /\ phase' = IF program_counter + 1 < Len(line_numbers) THEN "running" ELSE "done"
    /\ UNCHANGED <<program, variables, line_numbers, for_stack, return_stack, stdout,
                   failure, executed, last, text, stale, executes, loads>>

(***************************************************************************)
(* The program texts the specifications run.                               *)
(***************************************************************************)
\* PRINT A
StPrintA == <<"P", "R", "I", "N", "T", " ", "A">>

\* LET A = 1
StLetA1 == <<"L", "E", "T", " ", "A", " ", "=", " ", "1">>

\* LET A = A + 1
StLetAPlus1 == <<"L", "E", "T", " ", "A", " ", "=", " ", "A", " ", "+", " ", "1">>

\* REM
StRem == <<"R", "E", "M">>

\* END
StEnd == <<"E", "N", "D">>

\* GOTO 10
StGoto10 == <<"G", "O", "T", "O", " ", "1", "0">>

\* GOTO 20
StGoto20 == <<"G", "O", "T", "O", " ", "2", "0">>

\* GOTO 30
StGoto30 == <<"G", "O", "T", "O", " ", "3", "0">>

\* GOTO X
StGotoX == <<"G", "O", "T", "O", " ", "X">>

\* IF A = 1 THEN GOTO 10
StIfGoto10 ==
    <<"I", "F", " ", "A", " ", "=", " ", "1", " ", "T", "H", "E", "N", " ", "G", "O",
      "T", "O", " ", "1", "0">>

\* IF 1 < 2 THEN PRINT 1
StIfTrue ==
    <<"I", "F", " ", "1", " ", "<", " ", "2", " ", "T", "H", "E", "N", " ", "P", "R",
      "I", "N", "T", " ", "1">>

\* IF 2 < 1 THEN PRINT 1
StIfFalse ==
    <<"I", "F", " ", "2", " ", "<", " ", "1", " ", "T", "H", "E", "N", " ", "P", "R",
      "I", "N", "T", " ", "1">>

\* IF A = 1 THEN END
StIfEnd ==
    <<"I", "F", " ", "A", " ", "=", " ", "1", " ", "T", "H", "E", "N", " ", "E", "N",
      "D">>

\* NEXT
StNext == <<"N", "E", "X", "T">>

\* BAD
StBad == <<"B", "A", "D">>

\* INPUT A
StInputA == <<"I", "N", "P", "U", "T", " ", "A">>

\* FOR I = 1 TO 3
StFor1To3 == <<"F", "O", "R", " ", "I", " ", "=", " ", "1", " ", "T", "O", " ", "3">>

\* FOR I = 3 TO 1 STEP -1
StFor3To1 ==
    <<"F", "O", "R", " ", "I", " ", "=", " ", "3", " ", "T", "O", " ", "1", " ", "S",
      "T", "E", "P", " ", "-", "1">>

\* FOR X I = 1 TO 2
StForXI ==
    <<"F", "O", "R", " ", "X", " ", "I", " ", "=", " ", "1", " ", "T", "O", " ", "2">>

\* FOR X J = 2 TO 1 STEP -1
StForXJ ==
    <<"F", "O", "R", " ", "X", " ", "J", " ", "=", " ", "2", " ", "T", "O", " ", "1",
      " ", "S", "T", "E", "P", " ", "-", "1">>

\* FOR X I = 1 TO 2 STEP 0
StForStep0 ==
    <<"F", "O", "R", " ", "X", " ", "I", " ", "=", " ", "1", " ", "T", "O", " ", "2",
      " ", "S", "T", "E", "P", " ", "0">>

\* FOR X I = 5 TO 1
StFor5To1 ==
    <<"F", "O", "R", " ", "X", " ", "I", " ", "=", " ", "5", " ", "T", "O", " ", "1">>

\* PRINT I
StPrintI == <<"P", "R", "I", "N", "T", " ", "I">>

\* NEXT I
StNextI == <<"N", "E", "X", "T", " ", "I">>

\* NEXT J
StNextJ == <<"N", "E", "X", "T", " ", "J">>

\* PRINT 1
StPrint1 == <<"P", "R", "I", "N", "T", " ", "1">>

\* One physical line: the number, one space, the statement.
Line(n, statement) == IntToStr(n) \o <<" ">> \o statement

\* The sequences over S of at most n elements.
SeqsUpTo(S, n) == UNION {[1..k -> S] : k \in 0..n}

\* The text whose i-th line is numbered 10 * i and holds statements[i].
Numbered(statements) ==
    Join([i \in 1..Len(statements) |-> Line(10 * i, statements[i])], <<"\n">>)

FlowStatements ==
    {StPrintA, StPrint1, StLetA1, StLetAPlus1, StInputA, StEnd, StGoto10, StGoto20,
     StGoto30, StGotoX, StIfGoto10, StIfTrue, StIfFalse, StIfEnd, StNext, StBad}

\* Jumps, conditionals, END and the statements that fail, on lines 10, 20, ...
FlowPrograms == {Numbered(s) : s \in SeqsUpTo(FlowStatements, MaxLines)}

LoopStatements ==
    {StFor1To3, StFor3To1, StForXI, StForXJ, StForStep0, StFor5To1, StPrintI, StNext,
     StNextI, StNextJ, StLetA1}

\* FOR and NEXT, on lines 10, 20, ...
LoopPrograms == {Numbered(s) : s \in SeqsUpTo(LoopStatements, MaxLines)}

\* Physical lines in any order and with repeated numbers, and lines that
\* load_program skips: no number, or no statement.
OrderLines ==
    {Line(n, s) : n \in {10, 20, 30}, s \in {StPrint1, StPrintA, StLetA1, StRem}}
        \cup {<<"X", " ">> \o StPrint1, <<"2", "0">>}

\* Programs of PRINT, LET and REM only.
OrderPrograms == {Join(s, <<"\n">>) : s \in SeqsUpTo(OrderLines, MaxLines)}

\* Physical lines numbered 10 or 20 with a statement that prints, assigns,
\* jumps or loops, a line without number and a line numbered 010: in a text
\* they come in any order, numbers repeated.
EditLines ==
    {Line(n, s) : n \in {10, 20},
                  s \in {StPrint1, StLetA1, StGoto20, StIfGoto10, StForXI, StNextI}}
        \cup {<<"X", " ">> \o StPrint1, <<"0">> \o Line(10, StPrintA)}

\* Programs in which a later line may replace an earlier one.
EditPrograms == {Join(s, <<"\n">>) : s \in SeqsUpTo(EditLines, MaxLines)}

ReuseStatements == {StLetA1, StPrintA, StForXI}

\* The programs run one after the other on one instance.
ReusePrograms == {Numbered(s) : s \in SeqsUpTo(ReuseStatements, MaxLines)}

\* LET A = <expr>
StLetA(expr) == <<"L", "E", "T", " ", "A", " ", "=", " ">> \o expr

\* LET N = -2
StLetN == <<"L", "E", "T", " ", "N", " ", "=", " ", "-", "2">>

\* The values of the operands of an arithmetic expression.
Operands == {0 - 2} \cup 0..MaxOperand

\* How an operand is written: a number without sign, or the variable N for -2.
OperandText(a) == IF a < 0 THEN <<"N">> ELSE NatToStr(a)

\* a op1 b op2 c
Plain(a, op1, b, op2, c) ==
    OperandText(a) \o <<" ", op1, " ">> \o OperandText(b) \o <<" ", op2, " ">>
        \o OperandText(c)

\* (a op1 b) op2 c
Grouped(a, op1, b, op2, c) ==
    <<"(">> \o OperandText(a) \o <<" ", op1, " ">> \o OperandText(b)
        \o <<")", " ", op2, " ">> \o OperandText(c)

\* An additive and a multiplicative operator between three operands, with and
\* without parentheses around the sum.
ArithmeticTexts ==
    {Plain(a, op1, b, op2, c) : a \in Operands, b \in Operands, c \in Operands,
                                op1 \in {"+", "-"}, op2 \in {"*", "/"}}
        \cup {Grouped(a, op1, b, op2, c) : a \in Operands, b \in Operands, c \in Operands,
                                           op1 \in {"+", "-"}, op2 \in {"*", "/"}}

\* N is bound to -2, then A to the value of expr.
EvalProgram(expr) == Numbered(<<StLetN, StLetA(expr)>>)

EvalPrograms == {EvalProgram(expr) : expr \in ArithmeticTexts}

\* PRINT <expr>
StPrint(expr) == <<"P", "R", "I", "N", "T", " ">> \o expr

\* The argument texts of PRINT: quotes, semicolons, the variable N and spaces.
PrintTexts == SeqsUpTo({"\"", ";", "N", " "}, MaxPrintLen)

\* N is bound to -2, then the argument text is printed.
PrintPrograms == {Numbered(<<StLetN, StPrint(expr)>>) : expr \in PrintTexts}

\* IF <condition> THEN PRINT 1
StIfPrint1(condition) ==
    <<"I", "F", " ">> \o condition \o <<" ", "T", "H", "E", "N", " ">> \o StPrint1

\* Conditions with a relational operator between two operands, where an
\* operand is N, 1 or a text literal that holds an operator character.
ConditionTexts ==
    {x \o <<" ", op, " ">> \o y :
        x \in {<<"N">>, <<"1">>, <<"\"", ">", "\"">>, <<"\"", "<", "\"">>,
               <<"\"", "=", "\"">>},
        y \in {<<"N">>, <<"1">>, <<"\"", ">", "\"">>, <<"\"", "<", "\"">>,
               <<"\"", "=", "\"">>},
        op \in {">", "<", "="}}

\* N is bound to -2, then the condition decides whether 1 is printed.
ConditionPrograms ==
    {Numbered(<<StLetN, StIfPrint1(condition)>>) : condition \in ConditionTexts}

\* The programs that exercise the scans of the text of one statement.
ScanPrograms == EvalPrograms \cup PrintPrograms \cup ConditionPrograms

(***************************************************************************)
(* The specifications.  Each runs the programs of one family.  In all but  *)
(* SpecReuse an instance loads one program and executes it once.           *)
(***************************************************************************)
Next ==
    \/ loads = 0 /\ \E t \in FlowPrograms : Run(t)
    \/ loads = 0 /\ \E t \in FlowPrograms : Load(t)
    \/ executes = 0 /\ Execute
    \/ ExecuteLine
    \/ Advance

Spec == Init /\ [][Next]_vars

NextLoop ==
    \/ loads = 0 /\ \E t \in LoopPrograms : Run(t)
    \/ loads = 0 /\ \E t \in LoopPrograms : Load(t)
    \/ executes = 0 /\ Execute
    \/ ExecuteLine
    \/ Advance

SpecLoop == Init /\ [][NextLoop]_vars

NextOrder ==
    \/ loads = 0 /\ \E t \in OrderPrograms : Run(t)
    \/ loads = 0 /\ \E t \in OrderPrograms : Load(t)
    \/ executes = 0 /\ Execute
    \/ ExecuteLine
    \/ Advance

SpecOrder == Init /\ [][NextOrder]_vars

NextReuse ==
    \/ loads < MaxLoads /\ \E t \in ReusePrograms : Run(t)
    \/ loads < MaxLoads /\ \E t \in ReusePrograms : Load(t)
    \/ executes < MaxExecutes /\ Execute
    \/ ExecuteLine
    \/ Advance

SpecReuse == Init /\ [][NextReuse]_vars

NextEdit ==
    \/ loads = 0 /\ \E t \in EditPrograms : Run(t)
    \/ loads = 0 /\ \E t \in EditPrograms : Load(t)
    \/ executes = 0 /\ Execute
    \/ ExecuteLine
    \/ Advance

SpecEdit == Init /\ [][NextEdit]_vars

NextEval ==
    \/ loads = 0 /\ \E t \in ScanPrograms : Run(t)
    \/ loads = 0 /\ \E t \in ScanPrograms : Load(t)
    \/ executes = 0 /\ Execute
    \/ ExecuteLine
    \/ Advance

SpecEval == Init /\ [][NextEval]_vars

(***************************************************************************)
(* Properties.  last describes the statement executed latest: they are     *)
(* stated of the states in which a statement of the kind in question is    *)
(* that statement.                                                         *)
(***************************************************************************)
\* The statement dispatched latest: the program line itself, or the consequent
\* of an IF.
LastStatement == last.log[Len(last.log)]

\* The lines of the program in the order execute() visits them when nothing
\* jumps: the i-th executed is the i-th smallest.
InAscendingOrder ==
    \A i \in 1..Len(executed) :
        /\ executed[i] \in DOMAIN program
        /\ Cardinality({n \in DOMAIN program : n < executed[i]}) = i - 1

\* C1, as amended: for a program of PRINT, LET and REM lines given in any
\* textual order, the lines executed are the stored lines in strictly ascending
\* order, none skipped and none twice, up to the first line that raises; a run
\* in which no line raises executes every stored line.
C1_AscendingOnce ==
    /\ InAscendingOrder
    /\ (phase = "done" /\ executes > 0 /\ failure = NoFailure)
           => Len(executed) = Cardinality(DOMAIN program)

\* A run of three lines given in the order 30, 10, 20 has executed 10, 20, 30.
C1_ReorderedRun ==
    /\ phase = "done"
    /\ failure = NoFailure
    /\ executed = <<10, 20, 30>>
    /\ text[1] = "3"

\* C1 as stated: every finished run of a program of PRINT, LET and REM lines
\* has executed each stored line exactly once, in ascending order.
C1_EveryLineOnce ==
    (phase = "done" /\ executes > 0)
        => (InAscendingOrder /\ Len(executed) = Cardinality(DOMAIN program))

\* C2: FOR I = 1 TO 3 ... NEXT I runs its body for exactly I = 1, 2, 3 and then
\* falls through, and FOR I = 3 TO 1 STEP -1 counts down symmetrically.
C2_CountingLoop ==
    /\ (phase = "done" /\ text = Numbered(<<StFor1To3, StPrintI, StNextI>>))
           => /\ failure = NoFailure
              /\ executed = <<10, 20, 30, 20, 30, 20, 30>>
              /\ stdout = <<"1", "\n", "2", "\n", "3", "\n">>
    /\ (phase = "done" /\ text = Numbered(<<StFor3To1, StPrintI, StNextI>>))
           => /\ failure = NoFailure
              /\ executed = <<10, 20, 30, 20, 30, 20, 30>>
              /\ stdout = <<"3", "\n", "2", "\n", "1", "\n">>

\* int(statement[4:].strip()) for the GOTO dispatched latest
GotoTarget == ParseInt(Strip(From(LastStatement, 4)))

\* The statement dispatched latest is a GOTO that returned.
GotoTaken ==
    /\ last.log # <<>>
    /\ last.err = NoError
    /\ StartsWith(LastStatement, <<"G", "O", "T", "O">>)

\* C3: after GOTO n with n a line of the program (as a program line or as the
\* consequent of an IF) the run goes on, and the statement it fetches next is
\* the one stored at line n.
C3_GotoNext ==
    GotoTaken
        => /\ phase \in {"handled", "running"}
           /\ InSeq(line_numbers, GotoTarget.n)
           /\ phase = "running" => /\ CurrentLine(Self) = GotoTarget.n
                                   /\ executed[Len(executed)] = last.line

\* A GOTO back to the first line of the program, about to execute that line.
C3_BackToFirst ==
    /\ GotoTaken
    /\ phase = "running"
    /\ GotoTarget.n = line_numbers[1]
    /\ GotoTarget.n < last.line
    /\ CurrentLine(Self) = GotoTarget.n

\* The statement dispatched latest is a GOTO to a number that is not a line of
\* the program.
GotoAbsent ==
    /\ last.log # <<>>
    /\ StartsWith(LastStatement, <<"G", "O", "T", "O">>)
    /\ GotoTarget.ok
    /\ ~InSeq(line_numbers, GotoTarget.n)

\* C4: GOTO n with n not a line of the program aborts the run with an error
\* whose text holds "line number"; the GOTO is the last statement executed and
\* the output is as it was before it.
C4_GotoUndefined ==
    GotoAbsent
        => /\ phase = "done"
           /\ failure.line = last.line
           /\ failure.err.msg = "Undefined line number in GOTO statement"
           /\ Contains(ExecuteMessage(failure.line, failure.err),
                       <<"l", "i", "n", "e", " ", "n", "u", "m", "b", "e", "r">>)
           /\ stdout = last.before.stdout

\* A GOTO to an absent line after output was written.
C4_AfterOutput == GotoAbsent /\ phase = "done" /\ stdout # <<>>

\* C5: at the start of every run on a reused instance the instance is what a
\* new instance is at the start of the same run: no variable, loop frame,
\* return-stack entry or line of an earlier program is left; so a program whose
\* first line prints A fails to evaluate A, whatever was run before.
C5_FreshOnReuse ==
    /\ (executes = 1 /\ executed = <<>>)
           => /\ program = LoadProgram(NewInterpreter, text).program
              /\ line_numbers = LoadProgram(NewInterpreter, text).line_numbers
              /\ DOMAIN variables = {}
              /\ Len(for_stack) = 0
              /\ Len(return_stack) = 0
              /\ stdout = <<>>
              /\ DOMAIN program # {} => program_counter = 0
    /\ (executes = 1 /\ Len(executed) = 1 /\ last.log = <<StPrintA>>)
           => /\ phase = "done"
              /\ failure.line = last.line
              /\ failure.err.msg = "Error evaluating expression"
              /\ failure.err.cause = ErrorText(Error("Cannot evaluate expression: ", <<"A">>))

\* The second program on an instance prints A first, and A was assigned when
\* it was loaded.
C5_SecondRunFails ==
    /\ loads = 2
    /\ executes = 1
    /\ <<"A">> \in stale
    /\ Len(executed) = 1
    /\ last.log = <<StPrintA>>
    /\ failure.err.msg = "Error evaluating expression"

\* var_name of the NEXT dispatched latest (empty when it names none)
NextName == IF Len(LastStatement) > 4 THEN Strip(From(LastStatement, 4)) ELSE <<>>

\* The statement dispatched latest is a NEXT.
NextExecuted == last.log # <<>> /\ StartsWith(LastStatement, <<"N", "E", "X", "T">>)

\* C6: NEXT, with or without a variable name, while no loop is open aborts
\* the run with "NEXT without FOR" and leaves every variable as it was.
C6_NextWithoutFor ==
    (NextExecuted /\ Len(last.before.for_stack) = 0)
        => /\ phase = "done"
           /\ failure.line = last.line
           /\ failure.err.msg = "NEXT without FOR"
           /\ variables = last.before.variables
           /\ Len(for_stack) = 0

\* NEXT I with no loop open and a variable bound.
C6_NextIAlone ==
    /\ NextExecuted
    /\ LastStatement = StNextI
    /\ Len(last.before.for_stack) = 0
    /\ DOMAIN variables # {}
    /\ phase = "done"

\* The NEXT dispatched latest names a variable other than that of the top frame.
NextMismatch ==
    /\ NextExecuted
    /\ Len(last.before.for_stack) > 0
    /\ NextName # <<>>
    /\ NextName # last.before.for_stack[Len(last.before.for_stack)].var

\* C7: NEXT x while the top frame is for another variable aborts the run with
\* an error other than "NEXT without FOR", and leaves the loop stack and every
\* variable as they were, also when a frame for x lies deeper in the stack.
C7_NextMismatch ==
    NextMismatch
        => /\ phase = "done"
           /\ failure.line = last.line
           /\ failure.err.msg = "NEXT doesn't match FOR"
           /\ ErrorText(failure.err) # ErrorText(Error("NEXT without FOR", <<>>))
           /\ for_stack = last.before.for_stack
           /\ variables = last.before.variables

\* The NEXT names the variable of a frame below the top.
C7_FrameDeeper ==
    /\ NextMismatch
    /\ \E i \in 1..(Len(for_stack) - 1) : for_stack[i].var = NextName
    /\ phase = "done"

\* The program line executed latest is an END.
EndExecuted ==
    /\ Len(last.log) = 1
    /\ StartsWith(LastStatement, <<"E", "N", "D">>)

\* C8: END as a program line stops the run without error: the run never
\* returns to the head of the loop, so END stays the last statement executed.
C8_EndStops ==
    EndExecuted
        => /\ phase \in {"handled", "done"}
           /\ last.err = NoError
           /\ failure = NoFailure
           /\ Self = last.before

\* A run stopped by END with a line of a larger number left unexecuted.
C8_LinesAfterEnd ==
    /\ EndExecuted
    /\ phase = "done"
    /\ last.line < line_numbers[Len(line_numbers)]

\* C9: an exception raised by the statement at line L ends the run with the
\* exception "Error at line L: ..." for that L, the line the loop fetched,
\* and the statement that raised stays the last executed.
C9_ErrorTagged ==
    /\ (last.log # <<>> /\ last.err # NoError)
           => /\ phase = "done"
              /\ failure = [line |-> last.line, err |-> last.err]
              /\ last.line = CurrentLine(last.before)
              /\ executed[Len(executed)] = last.line
              /\ StartsWith(ExecuteMessage(failure.line, failure.err),
                            <<"E", "r", "r", "o", "r", " ", "a", "t", " ", "l", "i", "n", "e",
                              " ">> \o IntToStr(last.line) \o <<":", " ">>)
    /\ failure # NoFailure => (phase = "done" /\ last.err = failure.err)

\* An unknown command on a line after the first has ended the run.
C9_UnknownCommand ==
    /\ failure # NoFailure
    /\ failure.err.msg = "Syntax error: Unknown command"
    /\ failure.line > line_numbers[1]
    /\ phase = "done"

\* parts of the IF executed latest: statement[2:].strip().split(' THEN ', 1)
IfParts == Split1(Strip(From(last.log[1], 2)), <<" ", "T", "H", "E", "N", " ">>)

\* What its condition evaluates to in the state before it.
IfHolds == EvaluateCondition(Strip(IfParts[1]), last.before.variables)

\* The program line executed latest is an IF whose condition evaluates.
IfExecuted ==
    /\ last.log # <<>>
    /\ StartsWith(last.log[1], <<"I", "F">>)
    /\ Len(IfParts) = 2
    /\ IfHolds.ok

\* C10: IF c THEN S with c true dispatches S once, nested, and has the effect
\* of S; with c false it dispatches nothing, changes no variable, loop frame or
\* output, and the run goes on with the line that follows in ascending order.
C10_IfThen ==
    /\ (IfExecuted /\ IfHolds.b)
           => /\ Len(last.log) >= 2
              /\ last.log[2] = Strip(IfParts[2])
              /\ (phase = "handled" \/ failure # NoFailure)
                     => \E value \in InputLines \cup {<<>>} :
                            Self = ExecuteStatement(last.before, IfParts[2], value).self
    /\ (IfExecuted /\ ~IfHolds.b)
           => /\ Len(last.log) = 1
              /\ last.err = NoError
              /\ failure = NoFailure
              /\ variables = last.before.variables
              /\ for_stack = last.before.for_stack
              /\ stdout = last.before.stdout
              /\ IF phase = "handled"
                 THEN program_counter = last.before.program_counter
                 ELSE /\ program_counter = last.before.program_counter + 1
                      /\ phase = IF program_counter < Len(line_numbers)
                                 THEN "running" ELSE "done"

\* A true IF that printed once on line 10, then a false IF on line 20, and the
\* run about to execute line 30.
C10_TrueThenFalse ==
    /\ IfExecuted
    /\ ~IfHolds.b
    /\ phase = "running"
    /\ executed = <<10, 20>>
    /\ StartsWith(text, Line(10, StIfTrue))
    /\ stdout = <<"1", "\n">>
    /\ CurrentLine(Self) = 30

\* The program that assigns expr to A has executed that assignment.
Evaluated(expr) == Len(executed) = 2 /\ text = EvalProgram(expr)

\* The line raised nothing and A holds the number num / den, as an int when
\* whole is TRUE and as a float otherwise.
HoldsQuotient(num, den, whole) ==
    /\ failure = NoFailure
    /\ <<"A">> \in DOMAIN variables
    /\ variables[<<"A">>].t = (IF whole THEN "int" ELSE "float")
    /\ variables[<<"A">>].n * den = num * variables[<<"A">>].d

C12_GroupIsAUnit ==
    \A a \in Operands, b \in Operands, c \in Operands, sign \in {1, 0 - 1} :
        /\ Evaluated(Grouped(a, IF sign = 1 THEN "+" ELSE "-", b, "*", c))
               => HoldsQuotient((a + sign * b) * c, 1, TRUE)
        /\ Evaluated(Grouped(a, IF sign = 1 THEN "+" ELSE "-", b, "/", c))
               => IF c = 0
                  THEN failure.err.msg = "Division by zero"
                  ELSE HoldsQuotient(a + sign * b, c, FALSE)

\* The program line executed latest is a PRINT.
PrintExecuted == last.log # <<>> /\ StartsWith(last.log[1], <<"P", "R", "I", "N", "T">>)

\* Its argument text: statement[5:].strip()
PrintArgument == Strip(From(last.log[1], 5))

\* The character at 1-based position i of expr lies outside every quoted
\* span: an even number of quotes precedes it.
OutsideQuotes(expr, i) == Cardinality({j \in 1..(i - 1) : expr[j] = "\""}) % 2 = 0

\* The positions of the semicolons of expr outside quotes, and the position
\* after its end: where a part of the argument list ends.
PartEnds(expr) ==
    {i \in 1..Len(expr) : expr[i] = ";" /\ OutsideQuotes(expr, i)} \cup {Len(expr) + 1}

\* The text between the part end before position e and e itself, stripped.
PartBefore(expr, e) ==
    Strip(SubSeq(expr, Max({0} \cup {i \in PartEnds(expr) : i < e}) + 1, e - 1))

\* The number of semicolons in s.
Semicolons(s) == Cardinality({i \in 1..Len(s) : s[i] = ";"})

\* C13: the parts PRINT shows are the non-blank texts between the semicolons
\* that lie outside every quoted span, in order: a semicolon separates iff it
\* is outside quotes.  When the PRINT succeeds, the semicolons in its output
\* are exactly those written inside quotes.
C13_SemicolonOutsideQuotes ==
    PrintExecuted
        => /\ Len(ParsePrintParts(PrintArgument))
                  = Cardinality({e \in PartEnds(PrintArgument) :
                                    PartBefore(PrintArgument, e) # <<>>})
           /\ \A e \in PartEnds(PrintArgument) :
                  PartBefore(PrintArgument, e) # <<>>
                      => ParsePrintParts(PrintArgument)[
                             Cardinality({d \in PartEnds(PrintArgument) :
                                             d <= e /\ PartBefore(PrintArgument, d) # <<>>})]
                         = PartBefore(PrintArgument, e)
           /\ last.err = NoError
                  => Semicolons(stdout)
                         = Cardinality({i \in 1..Len(PrintArgument) :
                                           /\ PrintArgument[i] = ";"
                                           /\ ~OutsideQuotes(PrintArgument, i)})

\* PRINT ";";N has printed the semicolon and the value of N.
C13_QuotedSemicolonShown ==
    /\ PrintExecuted
    /\ PrintArgument = <<"\"", ";", "\"", ";", "N">>
    /\ stdout = <<";", " ", "-", "2", "\n">>

\* C14, as amended: whenever the run loop fetches a statement the counter is
\* an index of line_numbers; between the return of a handler and the loop's
\* increment it is at least -1 and below len(line_numbers), and it is -1 only
\* right after a GOTO to the first line of the program.
C14_CounterAtFetch ==
    /\ phase = "running" => (0 <= program_counter /\ program_counter < Len(line_numbers))
    /\ phase = "handled"
           => /\ 0 - 1 <= program_counter
              /\ program_counter < Len(line_numbers)
              /\ program_counter = 0 - 1 => (GotoTaken /\ GotoTarget.n = line_numbers[1])

\* A GOTO to the first line has returned and the loop has not yet stepped the
\* counter.
C14_BelowZeroAfterGoto ==
    /\ phase = "handled"
    /\ GotoTaken
    /\ program_counter = 0 - 1

\* C14 as stated: in every state of a run, the states between a handler and
\* the loop's increment included, 0 <= program_counter < len(line_numbers).
C14_CounterInRange ==
    phase \in {"running", "handled"}
        => (0 <= program_counter /\ program_counter < Len(line_numbers))

\* C15: a true IF c THEN S has the control-flow outcome of S executed on its
\* own in the same state: it tells the run loop to go on exactly when S does,
\* so that with S = END the run stops and no later line is executed.
C15_IfKeepsOutcome ==
    (IfExecuted /\ IfHolds.b /\ last.err = NoError)
        => /\ \E value \in InputLines \cup {<<>>} :
                  last.ret = ExecuteStatement(last.before, IfParts[2], value).ret
           /\ StartsWith(Strip(IfParts[2]), <<"E", "N", "D">>)
                  => /\ phase \in {"handled", "done"}
                     /\ program_counter = last.before.program_counter

\* C16: when an execution of the loaded program begins (after run(), and
\* after every execute(), a second one with no load_program in between
\* included) no variable is bound.
C16_NoVariableAtStart ==
    (phase = "running" /\ executed = <<>>) => DOMAIN variables = {}

\* The top loop frame in the state before the NEXT dispatched latest.
TopFrame == last.before.for_stack[Len(last.before.for_stack)]

\* The NEXT dispatched latest found a loop open and returned.
NextReturned ==
    /\ NextExecuted
    /\ Len(last.before.for_stack) > 0
    /\ last.err = NoError

\* C17, as amended: a loop whose step is exactly 0 is not specially detected
\* and does not go on: NEXT leaves the value of the variable as it is, neither
\* branch of the test holds, the frame is popped and the run falls through to
\* the line after NEXT.
C17_StepZeroEnds ==
    (NextReturned /\ TopFrame.step.n = 0)
        => /\ for_stack = Upto(last.before.for_stack, Len(last.before.for_stack) - 1)
           /\ PyEq(variables[TopFrame.var], last.before.variables[TopFrame.var])
           /\ phase = "handled" => program_counter = last.before.program_counter
           /\ phase # "handled" => program_counter = last.before.program_counter + 1

\* The loop FOR X I = 1 TO 2 STEP 0 has run its body once and ended.
C17_BodyOnce ==
    /\ text = Numbered(<<StForStep0, StPrintI, StNextI>>)
    /\ phase = "done"
    /\ executed = <<10, 20, 30>>
    /\ stdout = <<"1", "\n">>
    /\ Len(for_stack) = 0

\* C17 as stated: NEXT on a loop whose step is 0 and whose variable is
\* within the end bound jumps back: the frame stays and the run goes on at
\* the line of the FOR.
C17_StepZeroJumpsBack ==
    (/\ NextReturned
     /\ TopFrame.step.n = 0
     /\ PyLessEq(last.before.variables[TopFrame.var], TopFrame.end).b)
        => /\ for_stack = last.before.for_stack
           /\ phase = "handled" => line_numbers[program_counter + 1] = TopFrame.line

\* The value NEXT gives the variable of the top frame: old value + step, as a
\* fraction n / d.
SteppedValue ==
    [n |-> last.before.variables[TopFrame.var].n * TopFrame.step.d
               + TopFrame.step.n * last.before.variables[TopFrame.var].d,
     d |-> last.before.variables[TopFrame.var].d * TopFrame.step.d]

\* The stepped value is still within the end bound in the direction of the step.
WithinBound ==
    \/ /\ TopFrame.step.n > 0
       /\ SteppedValue.n * TopFrame.end.d <= TopFrame.end.n * SteppedValue.d
    \/ /\ TopFrame.step.n < 0
       /\ SteppedValue.n * TopFrame.end.d >= TopFrame.end.n * SteppedValue.d

\* C18: a NEXT that returns sets the variable of the top frame to its old
\* value + step and leaves every other variable as it was; if the loop goes on
\* the stack is exactly as before, and if it ends exactly the top frame is
\* gone and the frames below are as before.  A NEXT without a name acts on the
\* innermost loop.
C18_OnlyTopFrame ==
    NextReturned
        => /\ DOMAIN variables = DOMAIN last.before.variables
           /\ \A v \in DOMAIN variables :
                  v # TopFrame.var => variables[v] = last.before.variables[v]
           /\ variables[TopFrame.var].n * SteppedValue.d
                  = SteppedValue.n * variables[TopFrame.var].d
           /\ for_stack = IF WithinBound
                          THEN last.before.for_stack
                          ELSE Upto(last.before.for_stack, Len(last.before.for_stack) - 1)
           /\ program = last.before.program
           /\ stdout = last.before.stdout

\* A NEXT without a name has ended the inner loop J while the loop I is open:
\* the frame of I is left.
C18_InnerEnded ==
    /\ NextReturned
    /\ NextName = <<>>
    /\ Len(last.before.for_stack) = 2
    /\ TopFrame.var = <<"J">>
    /\ for_stack = <<last.before.for_stack[1]>>
    /\ for_stack[1].var = <<"I">>

\* C19: when NEXT lets its loop go on, the run goes on and the statement it
\* fetches next is the one at the smallest line number above the line of the
\* FOR; the FOR is not executed again: the variable keeps the stepped value
\* and the stack has no frame more than before.
C19_ReentryAfterOpener ==
    (NextReturned /\ WithinBound)
        => /\ phase \in {"handled", "running"}
           /\ phase = "handled"
                  => program_counter = IndexOf(line_numbers, TopFrame.line)
           /\ phase = "running"
                  => /\ CurrentLine(Self) > TopFrame.line
                     /\ \A n \in DOMAIN program : ~(TopFrame.line < n /\ n < CurrentLine(Self))
                     /\ executed[Len(executed)] = last.line
           /\ for_stack = last.before.for_stack
           /\ variables[TopFrame.var] # last.before.variables[TopFrame.var]

\* The first NEXT I of the loop opened at line 10 has let it go on, and the
\* run is about to execute line 20 with I = 2.
C19_BackInBody ==
    /\ NextReturned
    /\ WithinBound
    /\ phase = "running"
    /\ TopFrame.line = 10
    /\ CurrentLine(Self) = 20
    /\ executed = <<10, 20, 30>>
    /\ variables[<<"I">>] = IntV(2)

\* The condition of the IF executed latest, as _evaluate_condition strips it.
IfCondition == Strip(Strip(IfParts[1]))

\* The 1-based positions of the relational operator characters of a condition.
RelationalAt(condition) ==
    {i \in 1..Len(condition) : condition[i] \in {">", "<", "="}}

\* C20: the condition of an IF is split at its leftmost relational operator
\* character: that character is the comparison operator, the text before it
\* the left-hand expression and all the text after it the right-hand one.
C20_LeftmostOperator ==
    (/\ last.log # <<>>
     /\ StartsWith(last.log[1], <<"I", "F">>)
     /\ Len(IfParts) = 2
     /\ RelationalAt(IfCondition) # {})
        => /\ FindSub(IfCondition, <<ConditionOp(IfCondition)>>)
                  = Min(RelationalAt(IfCondition))
           /\ (/\ EvaluateExpression(Upto(IfCondition, Min(RelationalAt(IfCondition)) - 1),
                                      last.before.variables).ok
               /\ EvaluateExpression(From(IfCondition, Min(RelationalAt(IfCondition))),
                                      last.before.variables).ok)
                  => last.err.msg # "Cannot evaluate expression: "

\* The physical lines of a program text, each stripped.
TextLines(program_text) ==
    LET Each(lines) == [i \in 1..Len(lines) |-> Strip(lines[i])]
    IN  Each(SplitLines(Strip(program_text)))

\* The number a physical line gives: the text before its first space, when
\* there is a space and that text is an integer.
LineKey(line) ==
    LET Before(space) ==
            IF space = 0 THEN [ok |-> FALSE, n |-> 0] ELSE ParseInt(Upto(line, space - 1))
    IN  Before(FindSub(line, <<" ">>))

\* stored is what the lines of a text define: its keys are the numbers the
\* lines give, and the statement of a key is the text after the first space of
\* the last line that gives it.
DefinedBy(stored, lines) ==
    LET Keys(keys) ==
            /\ DOMAIN stored = {keys[i].n : i \in {k \in 1..Len(lines) : keys[k].ok}}
            /\ \A n \in DOMAIN stored :
                   \E i \in 1..Len(lines) :
                       /\ keys[i].ok /\ keys[i].n = n
                       /\ \A k \in (i + 1)..Len(lines) : ~(keys[k].ok /\ keys[k].n = n)
                       /\ stored[n] = From(lines[i], FindSub(lines[i], <<" ">>))
    IN  Keys([i \in 1..Len(lines) |-> LineKey(lines[i])])

\* C21: from load_program on and throughout the run, line_numbers is strictly
\* increasing and holds exactly the keys of program, which are the numbers the
\* lines of the text give; the statement stored for a number is the one of
\* the last line of the text that gives it; no statement handler changes
\* program or line_numbers.
C21_StoreAsLoaded ==
    loads > 0
        => /\ \A i \in 1..Len(line_numbers), j \in 1..Len(line_numbers) :
                  i < j => line_numbers[i] < line_numbers[j]
           /\ {line_numbers[i] : i \in 1..Len(line_numbers)} = DOMAIN program
           /\ DefinedBy(program, TextLines(text))
           /\ last.log # <<>>
                  => /\ program = last.before.program
                     /\ line_numbers = last.before.line_numbers

\* The text gives line 10 twice, and the run of the LET given last for it is
\* over: the PRINT given first is not in the program.
C21_LaterLineReplaces ==
    /\ text = Join(<<Line(10, StPrint1), Line(10, StLetA1)>>, <<"\n">>)
    /\ phase = "done"
    /\ program[10] = StLetA1
    /\ line_numbers = <<10>>
    /\ executed = <<10>>
    /\ stdout = <<>>

\* The program line executed latest is a FOR that returned.
ForReturned ==
    /\ Len(last.log) = 1
    /\ StartsWith(LastStatement, <<"F", "O", "R">>)
    /\ last.err = NoError

\* The words of that FOR after the keyword: statement[3:].strip().split()
ForParts == SplitWs(Strip(From(LastStatement, 3)))

\* C22: a FOR that returns has bound its variable to the start value and
\* pushed one frame for its own line, whatever the bounds; the run goes on
\* and the statement fetched next is the one at the next line, so the body is
\* entered also when the start value is beyond the end bound.  The bound is
\* tested by NEXT only.
C22_BodyEntered ==
    ForReturned
        => /\ Len(for_stack) = Len(last.before.for_stack) + 1
           /\ Upto(for_stack, Len(for_stack) - 1) = last.before.for_stack
           /\ for_stack[Len(for_stack)].var = ForParts[2]
           /\ for_stack[Len(for_stack)].line = last.line
           /\ variables[ForParts[2]]
                  = EvaluateExpression(ForParts[4], last.before.variables).v
           /\ last.ret
           /\ phase = "handled" => program_counter = last.before.program_counter
           /\ phase = "running"
                  => /\ program_counter = last.before.program_counter + 1
                     /\ CurrentLine(Self) > last.line
                     /\ executed[Len(executed)] = last.line
           /\ phase = "done" => last.line = line_numbers[Len(line_numbers)]

\* FOR X I = 5 TO 1 has returned and the run is about to execute its body
\* with I = 5, beyond the end bound 1.
C22_BeyondBoundEntered ==
    /\ ForReturned
    /\ LastStatement = StFor5To1
    /\ phase = "running"
    /\ variables[<<"I">>] = IntV(5)
    /\ for_stack[Len(for_stack)].end = IntV(1)
    /\ CurrentStatement(Self) = StPrintI

====
